---- MODULE Spec2Model ----
(***************************************************************************)
(* Model of perfil-de-compra:                                              *)
(*   main.py               normalize_cluster_labels, main                  *)
(*   cluster_engine.py     ClusterEngine.find_optimal_k, apply_kmeans,     *)
(*                         find_optimal_dbscan_params, apply_dbscan,       *)
(*                         calculate_metrics                               *)
(*   data_preprocessor.py  DataPreprocessor.create_user_profiles,          *)
(*                         prepare_features                                *)
(*                                                                         *)
(* Each component has its own specification (SpecNormalize, SpecMetrics,   *)
(* SpecKMeans, SpecDbscan, SpecDbscanTrace, SpecProfiles, SpecFeatures,    *)
(* SpecEngine, SpecMain); the variables of the other components rest.      *)
(*                                                                         *)
(* Scores are real numbers in the program.  They are modelled as integers  *)
(* in hundredths (silhouette in -100..100), so the program's -1 is -100.   *)
(* The scikit-learn calls (KMeans, DBSCAN, silhouette_score, ...) are the  *)
(* environment: each call either raises or returns a value drawn from a    *)
(* small set.                                                              *)
(***************************************************************************)
EXTENDS Integers, Sequences, FiniteSets, TLC

\* ------------------------------------------------------------------ bounds
MaxLen == 5          \* longest label array given to normalize_cluster_labels
MaxRows == 5         \* longest label assignment given to calculate_metrics
MaxSamples == 20     \* most rows of the feature matrix given to find_optimal_k
MaxPoints == 6       \* most rows given to find_optimal_dbscan_params
MaxClusters == 3     \* most clusters in a label array DBSCAN returns
MaxTracePoints == 8  \* most rows when the loop body is watched step by step
MaxCombos == 3       \* combinations whose loop body is watched step by step
MaxTableRows == 3    \* most rows of the raw table given to create_user_profiles
MaxProfiles == 3     \* most rows of the profile table given to prepare_features
MaxEngineRows == 8   \* most rows of the matrix given to one ClusterEngine
MaxMainRows == 8     \* most rows of the feature matrix in a run of main

\* the label values the arrays are drawn from; -1 is the outlier sentinel
LabelVals == {-1, 0, 1, 2, 3, 5}

VARIABLES
    nl_labels,       \* normalize_cluster_labels: the argument `labels`
    nl_once,         \* result of normalize_cluster_labels(labels)
    nl_twice,        \* result of normalizing nl_once again
    nl_pc,           \* "start" | "once" | "twice"
    cm_labels,       \* calculate_metrics: the argument `labels`
    cm_env,          \* what the three scikit-learn metrics do on (X, labels)
    cm_metrics,      \* the dict `metrics` returned
    cm_calls,        \* the scikit-learn metric calls made, in order
    cm_pc,           \* "start" | "returned" | "raised"
    km_n,            \* find_optimal_k: len(X)
    km_i,            \* position of the loop in k_values (1-based)
    km_runs,         \* the n_clusters of the KMeans runs made by the loop
    km_scores,       \* the list silhouette_scores
    km_last,         \* what scikit-learn did in the latest iteration
    km_optimal,      \* the value returned by find_optimal_k
    km_fit,          \* n_clusters of the KMeans built by apply_kmeans
    km_pc,           \* "loop" | "found" | "applied"
    db_n,            \* find_optimal_dbscan_params: len(X)
    db_idx,          \* position of the two nested loops in the grid (1-based)
    db_best_score,
    db_best_eps,     \* in tenths
    db_best_min_samples,
    db_best_n_clusters,
    db_any_scored,   \* some combination was viable and scored
    db_any_score_raised,  \* silhouette_score raised on some combination
    db_result,       \* the pair returned
    db_used_fallback,  \* the `if best_score == -1` branch was taken
    db_top,          \* the best scored combination so far, told from the
                     \* scores alone: highest score, then most clusters,
                     \* then first in the grid (idx 0: none scored yet)
    db_trace,        \* TRUE when the latest loop body is kept in db_last
    db_last,         \* the local `labels` of the latest combination and
                     \* what the loop body did with it
    db_pc            \* "loop" | "returned" | "raised"

nl_vars == <<nl_labels, nl_once, nl_twice, nl_pc>>

cm_vars == <<cm_labels, cm_env, cm_metrics, cm_calls, cm_pc>>

km_vars == <<km_n, km_i, km_runs, km_scores, km_last, km_optimal, km_fit,
            km_pc>>

db_vars == <<db_n, db_idx, db_best_score, db_best_eps, db_best_min_samples,
            db_best_n_clusters, db_any_scored, db_any_score_raised,
            db_result, db_used_fallback, db_top, db_trace, db_last, db_pc>>

VARIABLES
    up_df,           \* create_user_profiles: the raw table `df`
    up_profile,      \* the table `user_profile` returned
    up_pc            \* "start" | "returned"

up_vars == <<up_df, up_profile, up_pc>>

VARIABLES
    ft_df,           \* prepare_features: the profile table `df`
    ft_result,       \* what the call returned, or the exception it raised
    ft_pc            \* "start" | "returned" | "raised"

ft_vars == <<ft_df, ft_result, ft_pc>>

VARIABLES
    en_n,            \* one ClusterEngine: len(X) of the matrix it is given
    en_engine,       \* its fields model, labels, best_params
    en_call,         \* the latest method called on it and how it ended
    en_returned      \* the latest apply_* call that returned: its
                     \* arguments and what it returned

en_vars == <<en_n, en_engine, en_call, en_returned>>

VARIABLES
    mn_n,            \* main: the rows of X_scaled
    mn_heap,         \* the objects main created, by address
    mn_locals,       \* main's local names: addresses, or dicts by value
    mn_log,          \* the engine and normalizer calls that returned
    mn_pc            \* the statement main is at, or "raised"

mn_vars == <<mn_n, mn_heap, mn_locals, mn_log, mn_pc>>

rest_vars == <<up_vars, ft_vars, en_vars, mn_vars>>

vars == <<nl_vars, cm_vars, km_vars, db_vars, rest_vars>>

\* ------------------------------------------------------- helper operators
Range(s) == {s[i] : i \in DOMAIN s}

SetMin(S) == CHOOSE x \in S : \A y \in S : x <= y

SetMax(S) == CHOOSE x \in S : \A y \in S : x >= y

\* sorted(...) of a set of integers, ascending
RECURSIVE SortedSeq(_)
SortedSeq(S) ==
    IF S = {} THEN <<>>
    ELSE LET m == SetMin(S) IN <<m>> \o SortedSeq(S \ {m})

\* all sequences over S of length at most n
SeqsUpTo(S, n) == UNION {[1..k -> S] : k \in 0..n}

\* ------------------------------------------- main.normalize_cluster_labels
\* np.unique(labels): the distinct values, ascending
np_unique(labels) == SortedSeq(Range(labels))

\* unique_labels[unique_labels != -1]
valid_labels(labels) == SelectSeq(np_unique(labels), LAMBDA l : l # -1)

\* plausible slip: the mask is taken from the array being rewritten
\* (labels.copy() forgotten), so a fresh label can be relabelled again
RECURSIVE relabel_inplace(_, _, _, _, _)
relabel_inplace(labels, valid, i, new_label, normalized) ==
    IF i > Len(valid) THEN normalized
    ELSE relabel_inplace(labels, valid, i + 1, new_label + 1,
            [j \in DOMAIN labels |->
                IF normalized[j] = valid[i] THEN new_label ELSE normalized[j]])

\* the loop `for old_label in sorted(valid_labels)`: position i of the sorted
\* valid labels, new_label the next number, normalized the copy being written
RECURSIVE relabel(_, _, _, _, _)
relabel(labels, valid, i, new_label, normalized) ==
    IF i > Len(valid) THEN normalized
    ELSE relabel(labels, valid, i + 1, new_label + 1,
            [j \in DOMAIN labels |->
                IF labels[j] = valid[i] THEN new_label ELSE normalized[j]])

\* plausible slip: the outliers get one more than the next free number
normalize_noise_off_by_one(labels) ==
    LET valid == valid_labels(labels)
        after == relabel(labels, valid, 1, 1, labels)
        new_label == 1 + Len(valid)
    IN  [j \in DOMAIN labels |->
            IF labels[j] = -1 THEN new_label + 1 ELSE after[j]]

normalize_cluster_labels(labels) ==
    LET valid == valid_labels(labels)
        after == relabel(labels, valid, 1, 1, labels)
        new_label == 1 + Len(valid)       \* value of new_label after the loop
    IN  [j \in DOMAIN labels |->
            IF labels[j] = -1 THEN new_label ELSE after[j]]

\* ------------------------------------------------------------ idle values
\* each specification runs one component; the variables of the others rest
NormIdle ==
    /\ nl_labels = <<>>
    /\ nl_once = <<>>
    /\ nl_twice = <<>>
    /\ nl_pc = "idle"

CmIdle ==
    /\ cm_labels = <<>>
    /\ cm_env = <<>>
    /\ cm_metrics = <<>>
    /\ cm_calls = <<>>
    /\ cm_pc = "idle"

KmIdle ==
    /\ km_n = 0
    /\ km_i = 0
    /\ km_runs = <<>>
    /\ km_scores = <<>>
    /\ km_last = <<>>
    /\ km_optimal = 0
    /\ km_fit = 0
    /\ km_pc = "idle"

DbIdle ==
    /\ db_n = 0
    /\ db_idx = 0
    /\ db_best_score = 0
    /\ db_best_eps = 0
    /\ db_best_min_samples = 0
    /\ db_best_n_clusters = 0
    /\ db_any_scored = FALSE
    /\ db_any_score_raised = FALSE
    /\ db_result = <<>>
    /\ db_used_fallback = FALSE
    /\ db_top = <<>>
    /\ db_trace = FALSE
    /\ db_last = <<>>
    /\ db_pc = "idle"

UpIdle ==
    /\ up_df = <<>>
    /\ up_profile = <<>>
    /\ up_pc = "idle"

FtIdle ==
    /\ ft_df = <<>>
    /\ ft_result = <<>>
    /\ ft_pc = "idle"

EnIdle ==
    /\ en_n = 0
    /\ en_engine = <<>>
    /\ en_call = <<>>
    /\ en_returned = <<>>

MnIdle ==
    /\ mn_n = 0
    /\ mn_heap = <<>>
    /\ mn_locals = <<>>
    /\ mn_log = <<>>
    /\ mn_pc = "idle"

RestIdle == UpIdle /\ FtIdle /\ EnIdle /\ MnIdle

\* --------------------------------------------- the normalizer, applied
NormInit ==
    /\ nl_labels \in SeqsUpTo(LabelVals, MaxLen)
    /\ nl_once = <<>>
    /\ nl_twice = <<>>
    /\ nl_pc = "start"
    /\ CmIdle
    /\ KmIdle
    /\ DbIdle
    /\ RestIdle

\* labels_x = normalize_cluster_labels(labels_x_raw)
Normalize ==
    /\ nl_pc = "start"
    /\ nl_once' = normalize_cluster_labels(nl_labels)
    /\ nl_pc' = "once"
    /\ UNCHANGED <<nl_labels, nl_twice, cm_vars, km_vars, db_vars,
                   rest_vars>>

\* the normalizer applied to its own output
NormalizeAgain ==
    /\ nl_pc = "once"
    /\ nl_twice' = normalize_cluster_labels(nl_once)
    /\ nl_pc' = "twice"
    /\ UNCHANGED <<nl_labels, nl_once, cm_vars, km_vars, db_vars,
                   rest_vars>>

NormNext == Normalize \/ NormalizeAgain

SpecNormalize == NormInit /\ [][NormNext]_vars

\* the distinct non-outlier values of an array
NonOutlierVals(labels) == Range(labels) \ {-1}

\* 1-based rank of v among the distinct non-outlier values, ascending
RankOf(v, labels) == Cardinality({w \in NonOutlierVals(labels) : w <= v})

\* C1: after normalize_cluster_labels, every non-outlier entry holds the
\* 1-based rank of its original value among the distinct non-outlier values
\* (so the non-outlier outputs are exactly 1..m) and every -1 entry holds m+1
C1_RankRelabel ==
    nl_pc \in {"once", "twice"} =>
        LET m == Cardinality(NonOutlierVals(nl_labels)) IN
        /\ DOMAIN nl_once = DOMAIN nl_labels
        /\ \A j \in DOMAIN nl_labels :
              nl_once[j] = IF nl_labels[j] = -1 THEN m + 1
                           ELSE RankOf(nl_labels[j], nl_labels)
        /\ {nl_once[j] : j \in {i \in DOMAIN nl_labels : nl_labels[i] # -1}}
              = 1..m

C1_Witness ==
    /\ nl_pc = "once"
    /\ nl_labels = <<5, 5, 2, -1, 2>>
    /\ nl_once = <<2, 2, 1, 3, 1>>

\* C2: normalizing an already normalized array changes nothing, and
\* [1,2,3,-1] normalizes to [1,2,3,4]
C2_Idempotent ==
    /\ nl_pc = "twice" => nl_twice = nl_once
    /\ (nl_pc \in {"once", "twice"} /\ nl_labels = <<1, 2, 3, -1>>)
          => nl_once = <<1, 2, 3, 4>>

C2_Witness ==
    /\ nl_pc = "twice"
    /\ nl_labels = <<1, 2, 3, -1>>
    /\ nl_once = <<1, 2, 3, 4>>
    /\ nl_twice = <<1, 2, 3, 4>>

\* --------------------------------------- ClusterEngine.calculate_metrics
\* float('inf'), above every value davies_bouldin_score returns here
inf == 1000000

\* outcome of one scikit-learn call: a value, or an exception
Returns(v) == [raised |-> FALSE, value |-> v]

Raises == [raised |-> TRUE, value |-> 0]

\* silhouette_score on the non-outlier rows: in [-1, 1], in hundredths
SilhouetteOutcomes == {Raises} \cup {Returns(v) : v \in {-50, 0, 70}}

\* davies_bouldin_score: >= 0, lower is better
DaviesBouldinOutcomes == {Raises} \cup {Returns(v) : v \in {0, 120}}

\* calinski_harabasz_score: >= 0, higher is better
CalinskiHarabaszOutcomes == {Raises} \cup {Returns(v) : v \in {0, 250}}

\* metrics[key] = value
Put(d, key, value) ==
    [k \in DOMAIN d \cup {key} |-> IF k = key THEN value ELSE d[k]]

\* list(labels).count(v)
count(labels, v) == Cardinality({j \in DOMAIN labels : labels[j] = v})

\* plausible slip: the outlier sentinel is counted as a cluster
count_clusters_with_noise(labels) == Cardinality(Range(labels))

\* len(unique_labels) - (1 if -1 in unique_labels else 0)
count_clusters(labels) ==
    LET unique_labels == Range(labels)
    IN  Cardinality(unique_labels) - (IF -1 \in unique_labels THEN 1 ELSE 0)

\* a ratio n/d kept exact as the pair <<n, d>>
\* n_noise / len(labels) if len(labels) > 0 else 0
noise_ratio_of(n_noise, labels) ==
    IF Len(labels) > 0 THEN <<n_noise, Len(labels)>> ELSE <<0, 1>>

\* the rows selected by valid_mask = labels != -1
valid_rows(labels) == {j \in DOMAIN labels : labels[j] # -1}

\* plausible slip: one cluster is accepted
metrics_viable_one_cluster(n_clusters, n_valid) ==
    n_clusters >= 1 /\ n_valid >= n_clusters * 2

\* n_clusters > 1 and n_valid >= n_clusters * 2
metrics_viable(n_clusters, n_valid) ==
    n_clusters > 1 /\ n_valid >= n_clusters * 2

\* one scikit-learn metric call on (X[valid_mask], labels[valid_mask])
MetricCall(fn, labels) ==
    [fn |-> fn, rows |-> valid_rows(labels),
     labels |-> SelectSeq(labels, LAMBDA l : l # -1)]

\* try: metrics[key] = fn(...)  except Exception: metrics[key] = sentinel
try_metric(metrics, key, outcome, sentinel) ==
    Put(metrics, key, IF outcome.raised THEN sentinel ELSE outcome.value)

\* the else branch: the three sentinels
not_viable_branch(metrics) ==
    Put(Put(Put(metrics, "silhouette_score", 0),
            "davies_bouldin_score", inf),
        "calinski_harabasz_score", 0)

\* plausible slip: one try block around the three metrics, the handler
\* storing the three sentinels
viable_branch_single_try(metrics, labels, env) ==
    IF env.silhouette.raised
    THEN [metrics |-> not_viable_branch(metrics), raised |-> FALSE,
          calls |-> <<MetricCall("silhouette_score", labels)>>]
    ELSE IF env.davies_bouldin.raised
    THEN [metrics |-> not_viable_branch(metrics), raised |-> FALSE,
          calls |-> <<MetricCall("silhouette_score", labels),
                      MetricCall("davies_bouldin_score", labels)>>]
    ELSE [raised |-> FALSE, metrics |->
             try_metric(
                 Put(Put(metrics, "silhouette_score", env.silhouette.value),
                     "davies_bouldin_score", env.davies_bouldin.value),
                 "calinski_harabasz_score", env.calinski_harabasz, 0),
          calls |-> <<MetricCall("silhouette_score", labels),
                      MetricCall("davies_bouldin_score", labels),
                      MetricCall("calinski_harabasz_score", labels)>>]

\* the if branch: three try blocks, one after the other
viable_branch(metrics, labels, env) ==
    LET m1 == try_metric(metrics, "silhouette_score", env.silhouette, 0)
        m2 == try_metric(m1, "davies_bouldin_score", env.davies_bouldin, inf)
        m3 == try_metric(m2, "calinski_harabasz_score",
                         env.calinski_harabasz, 0)
    IN  [metrics |-> m3, raised |-> FALSE,   \* every handler catches Exception
         calls |-> <<MetricCall("silhouette_score", labels),
                     MetricCall("davies_bouldin_score", labels),
                     MetricCall("calinski_harabasz_score", labels)>>]

\* calculate_metrics(X, labels); env is what scikit-learn does on this input
calculate_metrics(labels, env) ==
    LET n_clusters == count_clusters(labels)
        n_noise == count(labels, -1)
        basic == Put(Put(Put(<<>>, "n_clusters", n_clusters),
                         "n_noise", n_noise),
                     "noise_ratio", noise_ratio_of(n_noise, labels))
        n_valid == Cardinality(valid_rows(labels))
    IN  IF metrics_viable(n_clusters, n_valid)
        THEN viable_branch(basic, labels, env)
        ELSE [metrics |-> not_viable_branch(basic), raised |-> FALSE,
              calls |-> <<>>]

MetricsInit ==
    /\ cm_labels \in SeqsUpTo(-1..2, MaxRows)
    /\ cm_env \in [silhouette : SilhouetteOutcomes,
                   davies_bouldin : DaviesBouldinOutcomes,
                   calinski_harabasz : CalinskiHarabaszOutcomes]
    /\ cm_metrics = <<>>
    /\ cm_calls = <<>>
    /\ cm_pc = "start"
    /\ NormIdle
    /\ KmIdle
    /\ DbIdle
    /\ RestIdle

\* metrics_x = engine_x.calculate_metrics(X_scaled, labels_x_raw)
CalculateMetrics ==
    /\ cm_pc = "start"
    /\ \E r \in {calculate_metrics(cm_labels, cm_env)} :
           /\ cm_metrics' = r.metrics
           /\ cm_calls' = r.calls
           /\ cm_pc' = IF r.raised THEN "raised" ELSE "returned"
    /\ UNCHANGED <<cm_labels, cm_env, nl_vars, km_vars, db_vars,
                   rest_vars>>

MetricsNext == CalculateMetrics

SpecMetrics == MetricsInit /\ [][MetricsNext]_vars

\* the viability condition of the evaluator, stated on the label array
CmClusters == Range(cm_labels) \ {-1}

CmViable ==
    /\ Cardinality(CmClusters) >= 2
    /\ Cardinality(valid_rows(cm_labels)) >= 2 * Cardinality(CmClusters)

MetricKeys == {"silhouette_score", "davies_bouldin_score",
               "calinski_harabasz_score"}

\* C3: the three metrics are computed, on the non-outlier rows only, exactly
\* when there are at least 2 non-outlier labels and at least twice as many
\* non-outlier rows as clusters; otherwise the record holds silhouette 0,
\* Davies-Bouldin +infinity and Calinski-Harabasz 0, all three keys present
C3_ViabilityGate ==
    cm_pc = "returned" =>
        /\ MetricKeys \subseteq DOMAIN cm_metrics
        /\ CmViable =>
              /\ Len(cm_calls) = 3
              /\ {cm_calls[i].fn : i \in DOMAIN cm_calls} = MetricKeys
              /\ \A i \in DOMAIN cm_calls :
                    /\ cm_calls[i].rows = valid_rows(cm_labels)
                    /\ -1 \notin Range(cm_calls[i].labels)
        /\ ~CmViable =>
              /\ cm_calls = <<>>
              /\ cm_metrics["silhouette_score"] = 0
              /\ cm_metrics["davies_bouldin_score"] = inf
              /\ cm_metrics["calinski_harabasz_score"] = 0

\* a single cluster, enough rows: not viable, the sentinels are stored
C3_Witness ==
    /\ cm_pc = "returned"
    /\ cm_labels = <<0, 0, -1>>
    /\ cm_calls = <<>>
    /\ cm_metrics["davies_bouldin_score"] = inf

\* C4: n_clusters (distinct labels other than -1), n_noise (entries equal to
\* -1) and noise_ratio (n_noise / len(labels), 0 when empty) are always
\* reported, with 0 <= n_noise <= len(labels) and 0 <= noise_ratio <= 1
C4_CountsAlwaysReported ==
    cm_pc = "returned" =>
        /\ {"n_clusters", "n_noise", "noise_ratio"} \subseteq DOMAIN cm_metrics
        /\ cm_metrics["n_clusters"] = Cardinality(CmClusters)
        /\ cm_metrics["n_noise"] =
              Cardinality(DOMAIN cm_labels \ valid_rows(cm_labels))
        /\ cm_metrics["n_noise"] \in 0..Len(cm_labels)
        /\ LET r == cm_metrics["noise_ratio"] IN
              /\ r[2] > 0
              /\ 0 <= r[1] /\ r[1] <= r[2]
              /\ IF cm_labels = <<>> THEN r[1] = 0
                 ELSE r[1] * Len(cm_labels) = cm_metrics["n_noise"] * r[2]

\* not viable (one cluster) and the counts are still there
C4_Witness ==
    /\ cm_pc = "returned"
    /\ cm_labels = <<-1, 0, -1, 0>>
    /\ cm_metrics["n_clusters"] = 1
    /\ cm_metrics["n_noise"] = 2
    /\ cm_metrics["noise_ratio"] = <<2, 4>>

\* C5: when the viability condition holds, a metric whose computation raises
\* takes its sentinel, the other metrics are still called and hold what
\* their computation returned, and calculate_metrics returns
C5_MetricFailuresIsolated ==
    (cm_pc \in {"returned", "raised"} /\ CmViable) =>
        /\ cm_pc = "returned"
        /\ Len(cm_calls) = 3
        /\ cm_metrics["silhouette_score"] =
              IF cm_env.silhouette.raised THEN 0
              ELSE cm_env.silhouette.value
        /\ cm_metrics["davies_bouldin_score"] =
              IF cm_env.davies_bouldin.raised THEN inf
              ELSE cm_env.davies_bouldin.value
        /\ cm_metrics["calinski_harabasz_score"] =
              IF cm_env.calinski_harabasz.raised THEN 0
              ELSE cm_env.calinski_harabasz.value

\* Davies-Bouldin raises, the two others are computed and reported
C5_Witness ==
    /\ cm_pc = "returned"
    /\ CmViable
    /\ cm_env.davies_bouldin.raised
    /\ ~cm_env.silhouette.raised /\ ~cm_env.calinski_harabasz.raised
    /\ cm_metrics["davies_bouldin_score"] = inf
    /\ cm_metrics["silhouette_score"] = 70
    /\ cm_metrics["calinski_harabasz_score"] = 250

\* ------------------------------------------ ClusterEngine.find_optimal_k
\* the default k_range: Tuple[int, int] = (2, 10)
k_range == <<2, 10>>

Min(a, b) == IF a <= b THEN a ELSE b

\* Python's range(a, b): a, a+1, ..., b-1
py_range(a, b) == [i \in 1..(IF b > a THEN b - a ELSE 0) |-> a + i - 1]

\* range(k_range[0], min(k_range[1] + 1, len(X) // 2))
k_values(n) == py_range(k_range[1], Min(k_range[2] + 1, n \div 2))

\* silhouette_scores.append(-1)
invalid_score == -100

\* max(silhouette_scores)
py_max(scores) == SetMax(Range(scores))

\* plausible slip: the last of the best scores is taken
np_argmax_last(scores) ==
    SetMax({i \in DOMAIN scores : scores[i] = py_max(scores)})

\* np.argmax(silhouette_scores): the first position of the maximum
np_argmax(scores) ==
    SetMin({i \in DOMAIN scores : scores[i] = py_max(scores)})

\* what one iteration of the loop can meet: KMeans raises, the fit gives one
\* label, or it gives several labels and silhouette_score returns or raises
IterationOutcomes ==
    {[fit |-> "raises", silhouette |-> Raises],
     [fit |-> "one_label", silhouette |-> Raises]}
    \cup {[fit |-> "labels", silhouette |-> o] : o \in SilhouetteOutcomes}

\* the score an iteration appends to silhouette_scores
iteration_score(outcome) ==
    IF outcome.fit = "raises" THEN invalid_score
    ELSE IF outcome.fit = "one_label" THEN invalid_score
    ELSE IF outcome.silhouette.raised THEN invalid_score
    ELSE outcome.silhouette.value

\* not silhouette_scores or max(silhouette_scores) < 0
no_candidate_worked(scores) ==
    scores = <<>> \/ py_max(scores) < 0

\* the end of find_optimal_k: the value returned for the recorded scores
choose_k(n, scores) ==
    IF no_candidate_worked(scores) THEN k_range[1]
    ELSE k_values(n)[np_argmax(scores)]

KMeansInit ==
    /\ km_n \in 2..MaxSamples
    /\ km_i = 1
    /\ km_runs = <<>>
    /\ km_scores = <<>>
    /\ km_last = <<>>
    /\ km_optimal = 0
    /\ km_fit = 0
    /\ km_pc = "loop"
    /\ NormIdle
    /\ CmIdle
    /\ DbIdle
    /\ RestIdle

\* one iteration of `for k in k_values`
TryK ==
    /\ km_pc = "loop"
    /\ km_i <= Len(k_values(km_n))
    /\ \E outcome \in IterationOutcomes :
          /\ km_last' = outcome
          /\ km_scores' = Append(km_scores, iteration_score(outcome))
    /\ km_runs' = Append(km_runs, k_values(km_n)[km_i])
    /\ km_i' = km_i + 1
    /\ UNCHANGED <<km_n, km_optimal, km_fit, km_pc, nl_vars, cm_vars,
                   db_vars,
                   rest_vars>>

\* the loop is over: find_optimal_k returns
ReturnOptimalK ==
    /\ km_pc = "loop"
    /\ km_i > Len(k_values(km_n))
    /\ km_optimal' = choose_k(km_n, km_scores)
    /\ km_pc' = "found"
    /\ UNCHANGED <<km_n, km_i, km_runs, km_scores, km_last, km_fit,
                   nl_vars, cm_vars, db_vars,
                   rest_vars>>

\* apply_kmeans with n_clusters None: KMeans(n_clusters=find_optimal_k(X))
ApplyKMeans ==
    /\ km_pc = "found"
    /\ km_fit' = km_optimal
    /\ km_pc' = "applied"
    /\ UNCHANGED <<km_n, km_i, km_runs, km_scores, km_last, km_optimal,
                   nl_vars, cm_vars, db_vars,
                   rest_vars>>

KMeansNext == TryK \/ ReturnOptimalK \/ ApplyKMeans

SpecKMeans == KMeansInit /\ [][KMeansNext]_vars

\* C6: with the default range every count of [2, min(10, floor(n/2))] is run
\* and scored, the upper end included
C6_ClosedCandidateRange ==
    km_pc \in {"found", "applied"} =>
        /\ Range(km_runs) = 2..Min(10, km_n \div 2)
        /\ Len(km_scores) = Len(km_runs)

\* C7: the count returned by find_optimal_k, and used by apply_kmeans, is
\* never below 2 and never above floor(n/2)
C7_CountWithinHalf ==
    /\ km_pc \in {"found", "applied"} =>
          (2 <= km_optimal /\ km_optimal <= km_n \div 2)
    /\ km_pc = "applied" => (2 <= km_fit /\ km_fit <= km_n \div 2)

\* C8: one score per candidate in candidate order (the silhouette score, or
\* -1 when the run gives one label or raises); the count returned is the one
\* with the highest score, the smallest on a tie; with no candidate or every
\* score below 0 it is the smallest count of the range, 2
C8_BestScoreFirstOnTie ==
    /\ km_pc \in {"loop", "found", "applied"} =>
          /\ Len(km_scores) = Len(km_runs)
          /\ \A j \in DOMAIN km_runs : km_runs[j] = k_values(km_n)[j]
          /\ km_scores # <<>> =>
                km_scores[Len(km_scores)] =
                    IF km_last.fit = "labels" /\ ~km_last.silhouette.raised
                    THEN km_last.silhouette.value ELSE -100
    /\ km_pc \in {"found", "applied"} =>
          /\ Len(km_runs) = Len(k_values(km_n))
          /\ IF km_scores = <<>> \/ \A j \in DOMAIN km_scores : km_scores[j] < 0
             THEN km_optimal = 2
             ELSE \E j \in DOMAIN km_scores :
                     /\ km_runs[j] = km_optimal
                     /\ \A i \in DOMAIN km_scores : km_scores[i] <= km_scores[j]
                     /\ \A i \in 1..(j - 1) : km_scores[i] < km_scores[j]

\* two candidates share the highest score 0 and the smaller one is returned
C8_Witness ==
    /\ km_pc = "found"
    /\ km_scores = <<-100, 0, -50, 0>>
    /\ km_optimal = 3

\* ------------------------------ ClusterEngine.find_optimal_dbscan_params
\* np.arange(0.3, 2.0, 0.1), in tenths: 0.3, 0.4, ..., 1.9
eps_range == py_range(3, 20)

min_samples_range == <<3, 5, 7, 10, 15>>

\* the combinations in the order the two nested loops visit them
grid ==
    [i \in 1..(Len(eps_range) * Len(min_samples_range)) |->
        [eps |-> eps_range[((i - 1) \div Len(min_samples_range)) + 1],
         min_samples |->
             min_samples_range[((i - 1) % Len(min_samples_range)) + 1]]]

\* the label arrays DBSCAN can return on n points, one for each number of
\* outliers and number of clusters (the search reads only the set of labels,
\* the number of -1 and the length): the outliers first, then cluster 0
\* with every point the later clusters leave, then clusters 1, 2, ... with
\* one point each
labels_of(n, noise, m) ==
    [i \in 1..n |-> IF i <= noise THEN -1
                    ELSE IF i <= n - (m - 1) THEN 0
                    ELSE i - (n - (m - 1))]

DbscanLabelings ==
    [n \in 0..((IF MaxPoints > MaxTracePoints THEN MaxPoints
                ELSE MaxTracePoints) + 1) |->
        {labels_of(n, t[1], t[2]) :
            t \in {u \in (0..n) \X (0..(MaxClusters + 1)) :
                      /\ u[2] <= MaxClusters
                      /\ u[2] <= n - u[1]
                      /\ (u[2] = 0) = (u[1] = n)}}]

\* silhouette_score on the non-outlier points, in hundredths of [-1, 1]
SearchSilhouetteOutcomes == {Raises} \cup {Returns(v) : v \in {-100, 0, 70}}

\* noise_ratio < 0.5 with noise_ratio = n_noise / len(labels), 1.0 when empty
noise_below_half(n_noise, len) ==
    IF len > 0 THEN 2 * n_noise < len ELSE FALSE

\* plausible slip: the noise-ratio half of the first test is left out
is_scored_any_noise(labels) ==
    LET n_clusters == count_clusters(labels)
    IN  /\ n_clusters >= 2
        /\ Cardinality(valid_rows(labels)) >= n_clusters * 2

\* n_clusters >= 2 and noise_ratio < 0.5, then valid_mask.sum() >= n_clusters*2
is_scored(labels) ==
    LET n_clusters == count_clusters(labels)
        n_noise == count(labels, -1)
    IN  /\ n_clusters >= 2
        /\ noise_below_half(n_noise, Len(labels))
        /\ Cardinality(valid_rows(labels)) >= n_clusters * 2

\* score > best_score or (score == best_score and n_clusters > best_n_clusters)
is_better(score, n_clusters, best) ==
    \/ score > best.score
    \/ (score = best.score /\ n_clusters > best.n_clusters)

\* the body of the two loops for one combination whose DBSCAN run returned
\* labels; silhouette is what silhouette_score does if it is called
try_combination(best, combo, labels, silhouette) ==
    IF ~is_scored(labels) THEN [best |-> best, kind |-> "not_viable"]
    ELSE IF silhouette.raised THEN [best |-> best, kind |-> "score_raised"]
    ELSE IF is_better(silhouette.value, count_clusters(labels), best)
    THEN [best |-> [score |-> silhouette.value, eps |-> combo.eps,
                    min_samples |-> combo.min_samples,
                    n_clusters |-> count_clusters(labels)],
          kind |-> "scored"]
    ELSE [best |-> best, kind |-> "scored"]

\* the test `best_score == -1` after the loops
no_combination_worked(best) == best.score = -100

\* plausible slip: the fallback is forgotten and the placeholders returned
final_params_no_fallback(best) == <<best.eps, best.min_samples>>

\* if best_score == -1: (0.8, 5); return best_eps, best_min_samples
final_params(best) ==
    IF no_combination_worked(best) THEN <<8, 5>>
    ELSE <<best.eps, best.min_samples>>

\* history: the best of the scored combinations, kept apart from the
\* program's own best_* variables
no_top == [score |-> 0, n_clusters |-> 0, idx |-> 0]

next_top(top, idx, score, n_clusters) ==
    IF \/ top.idx = 0
       \/ score > top.score
       \/ (score = top.score /\ n_clusters > top.n_clusters)
    THEN [score |-> score, n_clusters |-> n_clusters, idx |-> idx]
    ELSE top

no_last == [labels |-> <<>>, kind |-> "none", replaced |-> FALSE]

db_best == [score |-> db_best_score, eps |-> db_best_eps,
            min_samples |-> db_best_min_samples,
            n_clusters |-> db_best_n_clusters]

DbscanInit ==
    /\ db_n \in 1..MaxPoints
    /\ db_idx = 1
    /\ db_best_score = -100
    /\ db_best_eps = 5
    /\ db_best_min_samples = 5
    /\ db_best_n_clusters = 0
    /\ db_any_scored = FALSE
    /\ db_any_score_raised = FALSE
    /\ db_result = <<>>
    /\ db_used_fallback = FALSE
    /\ db_top = no_top
    /\ db_trace = FALSE
    /\ db_last = no_last
    /\ db_pc = "loop"
    /\ NormIdle
    /\ CmIdle
    /\ KmIdle
    /\ RestIdle

\* one pass of the inner loop body, DBSCAN returning labels
TryCombination ==
    /\ db_pc = "loop"
    /\ db_idx <= Len(grid)
    /\ \E labels \in DbscanLabelings[db_n] :
        \E silhouette \in IF is_scored(labels) THEN SearchSilhouetteOutcomes
                           ELSE {Raises} :
          \E r \in {try_combination(db_best, grid[db_idx], labels,
                                     silhouette)} :
              /\ db_best_score' = r.best.score
              /\ db_best_eps' = r.best.eps
              /\ db_best_min_samples' = r.best.min_samples
              /\ db_best_n_clusters' = r.best.n_clusters
              /\ db_any_scored' = (db_any_scored \/ r.kind = "scored")
              /\ db_any_score_raised' =
                    (db_any_score_raised \/ r.kind = "score_raised")
              /\ db_top' = IF r.kind = "scored"
                           THEN next_top(db_top, db_idx, silhouette.value,
                                         count_clusters(labels))
                           ELSE db_top
              /\ db_last' = IF db_trace
                            THEN [labels |-> labels, kind |-> r.kind,
                                  replaced |-> r.best # db_best]
                            ELSE db_last
    /\ db_idx' = db_idx + 1
    /\ UNCHANGED <<db_n, db_result, db_used_fallback, db_trace, db_pc,
                   nl_vars, cm_vars, km_vars,
                   rest_vars>>

\* dbscan.fit_predict(X) raises: it is outside the try block, the exception
\* leaves find_optimal_dbscan_params
DbscanRaises ==
    /\ db_pc = "loop"
    /\ db_idx <= Len(grid)
    /\ db_pc' = "raised"
    /\ UNCHANGED <<db_n, db_idx, db_best_score, db_best_eps,
                   db_best_min_samples, db_best_n_clusters, db_any_scored,
                   db_any_score_raised, db_result, db_used_fallback, db_top,
                   db_trace, db_last, nl_vars, cm_vars, km_vars,
                   rest_vars>>

\* both loops are over: the fallback test and the return
ReturnDbscanParams ==
    /\ db_pc = "loop"
    /\ db_idx > Len(grid)
    /\ db_result' = final_params(db_best)
    /\ db_used_fallback' = no_combination_worked(db_best)
    /\ db_pc' = "returned"
    /\ UNCHANGED <<db_n, db_idx, db_best_score, db_best_eps,
                   db_best_min_samples, db_best_n_clusters, db_any_scored,
                   db_any_score_raised, db_top, db_trace, db_last,
                   nl_vars, cm_vars, km_vars,
                   rest_vars>>

DbscanNext == TryCombination \/ DbscanRaises \/ ReturnDbscanParams

SpecDbscan == DbscanInit /\ [][DbscanNext]_vars

\* the first MaxCombos passes of the loop body, each kept in db_last
DbscanTraceInit ==
    /\ db_n \in 1..MaxTracePoints
    /\ db_idx = 1
    /\ db_best_score = -100
    /\ db_best_eps = 5
    /\ db_best_min_samples = 5
    /\ db_best_n_clusters = 0
    /\ db_any_scored = FALSE
    /\ db_any_score_raised = FALSE
    /\ db_result = <<>>
    /\ db_used_fallback = FALSE
    /\ db_top = no_top
    /\ db_trace = TRUE
    /\ db_last = no_last
    /\ db_pc = "loop"
    /\ NormIdle
    /\ CmIdle
    /\ KmIdle
    /\ RestIdle

WatchedCombination == db_idx <= MaxCombos /\ TryCombination

DbscanTraceNext == WatchedCombination \/ DbscanRaises

SpecDbscanTrace == DbscanTraceInit /\ [][DbscanTraceNext]_vars

\* C9: when no combination was viable and scored, the search returns
\* exactly radius 0.8 and minimum-neighbors 5
C9_FallbackParams ==
    (db_pc = "returned" /\ ~db_any_scored) => db_result = <<8, 5>>

\* no combination was scored: each was not viable or failed to score
C9_Witness ==
    /\ db_pc = "returned"
    /\ ~db_any_scored
    /\ db_any_score_raised
    /\ db_result = <<8, 5>>

\* C10: an exception while a combination is processed never makes the
\* search raise or stop early: it ends by returning, every combination done
C10_SearchNeverAborts ==
    /\ db_pc # "raised"
    /\ db_pc = "returned" => db_idx = Len(grid) + 1

\* C11: the search tries every combination of a radius 0.3, 0.4, ..., 1.9,
\* 2.0 with a minimum-neighbor count in {3,5,7,10,15}, each exactly once
\* in ascending order, and ends after the last one
C11_FullGrid ==
    db_pc = "returned" =>
        /\ db_idx - 1 = Cardinality(3..20) * Len(min_samples_range)
        /\ \A e \in 3..20 : \A m \in Range(min_samples_range) :
              \E i \in 1..(db_idx - 1) :
                  grid[i] = [eps |-> e, min_samples |-> m]
        /\ \A i, j \in 1..(db_idx - 1) :
              i < j => \/ grid[i].eps < grid[j].eps
                       \/ /\ grid[i].eps = grid[j].eps
                          /\ grid[i].min_samples < grid[j].min_samples

\* the three conditions on the labels one combination produced, stated
\* on the label array itself
LastClusters == Range(db_last.labels) \ {-1}

LastOutliers == {i \in DOMAIN db_last.labels : db_last.labels[i] = -1}

LastHasTwoClusters == Cardinality(LastClusters) >= 2

LastNoiseBelowHalf == 2 * Cardinality(LastOutliers) < Len(db_last.labels)

LastEnoughPoints ==
    Len(db_last.labels) - Cardinality(LastOutliers)
        >= 2 * Cardinality(LastClusters)

\* C14: a combination whose labels have fewer than 2 clusters, or an
\* outlier ratio of 0.5 or more, or fewer non-outlier points than twice
\* the cluster count, is never scored and never changes the remembered best
C14_OnlyViableScored ==
    (db_trace /\ db_last.kind # "none"
       /\ ~(LastHasTwoClusters /\ LastNoiseBelowHalf /\ LastEnoughPoints))
    => (db_last.kind = "not_viable" /\ ~db_last.replaced)

\* a best is remembered, and the latest combination fails the outlier
\* ratio alone: it was not scored and the best stayed
C14_Witness ==
    /\ db_trace
    /\ db_any_scored
    /\ db_last.kind = "not_viable"
    /\ ~db_last.replaced
    /\ LastHasTwoClusters
    /\ LastEnoughPoints
    /\ ~LastNoiseBelowHalf

ReturnsTopAbovePlaceholder ==
    (db_pc = "returned" /\ db_top.idx > 0 /\ db_top.score > -100)
    => db_result = <<grid[db_top.idx].eps, grid[db_top.idx].min_samples>>

NaN == <<"NaN">>

Unknown == <<"Unknown">>

\* the symbols in ascending string order
SymbolOrder == <<",", "A", "B", "Computers", "Home", "Kitchen", "Unknown", "|">>

\* the cells the raw columns user_id and category are drawn from
UserIdCells == {NaN, <<"A">>, <<"B">>, <<"A", ",", "B">>, Unknown}

CategoryCells == {NaN, <<"Computers">>, <<"Home", "|", "Kitchen">>}

rank(c) == CHOOSE i \in DOMAIN SymbolOrder : SymbolOrder[i] = c

\* a < b on texts
RECURSIVE str_less(_, _)
str_less(a, b) ==
    IF a = <<>> THEN b # <<>>
    ELSE IF b = <<>> THEN FALSE
    ELSE IF Head(a) = Head(b) THEN str_less(Tail(a), Tail(b))
    ELSE rank(Head(a)) < rank(Head(b))

str_min(S) == CHOOSE x \in S : \A y \in S \ {x} : str_less(x, y)

\* the texts of S in ascending order
RECURSIVE sorted_strs(_)
sorted_strs(S) ==
    IF S = {} THEN <<>>
    ELSE <<str_min(S)>> \o sorted_strs(S \ {str_min(S)})

\* text.split(sep)[0]
RECURSIVE split_first(_, _)
split_first(text, sep) ==
    IF text = <<>> \/ Head(text) = sep THEN <<>>
    ELSE <<Head(text)>> \o split_first(Tail(text), sep)

\* plausible slip: the identifier is kept whole
clean_user_id_whole(cell) == IF cell = NaN THEN Unknown ELSE cell

\* fillna('Unknown'), then astype(str).str.split(',').str[0]
clean_user_id(cell) ==
    split_first(IF cell = NaN THEN Unknown ELSE cell, ",")

extract_main_category(cell) ==
    IF cell = NaN THEN Unknown ELSE split_first(cell, "|")

\* Series.mode(): the most frequent values, in ascending order
mode(x) ==
    sorted_strs({c \in Range(x) : \A d \in Range(x) : count(x, c) >= count(x, d)})

\* plausible slip: of the most frequent values, the one met first
favorite_category_first_seen(x) ==
    IF mode(x) = <<>> THEN Unknown
    ELSE x[SetMin({i \in DOMAIN x : x[i] \in Range(mode(x))})]

\* lambda x: x.mode().iloc[0] if not x.mode().empty else 'Unknown'
favorite_category(x) ==
    IF mode(x) = <<>> THEN Unknown ELSE mode(x)[1]

\* df.groupby('user_id'): one group per distinct key, keys ascending
group_keys(df) == sorted_strs({df[i].user_id : i \in DOMAIN df})

group_column(df, key, column) ==
    LET rows == SelectSeq(df, LAMBDA r : r.user_id = key)
    IN  [i \in DOMAIN rows |-> rows[i][column]]

\* left.merge(right, left_on='user_id', right_index=True, how='left')
RECURSIVE merge_left(_, _)
merge_left(left, right_index) ==
    IF left = <<>> THEN <<>>
    ELSE LET row == Head(left)
             matches == SelectSeq(right_index, LAMBDA k : k = row.user_id)
             rows == IF matches = <<>> THEN <<row>>
                     ELSE [j \in DOMAIN matches |-> row]
         IN  rows \o merge_left(Tail(left), right_index)

create_user_profiles(raw) ==
    LET df == [i \in DOMAIN raw |->
                 [user_id |-> clean_user_id(raw[i].user_id),
                  main_category |-> extract_main_category(raw[i].category)]]
        keys == group_keys(df)
        user_profile ==
            [k \in DOMAIN keys |->
               [user_id |-> keys[k],
                total_products |-> Len(group_column(df, keys[k], "user_id")),
                favorite_category |->
                    favorite_category(group_column(df, keys[k],
                                                   "main_category"))]]
        category_counts == group_keys(df)
    IN  merge_left(user_profile, category_counts)

ProfilesInit ==
    /\ up_df \in UNION {[1..n -> [user_id : UserIdCells,
                                  category : CategoryCells]] :
                        n \in 1..MaxTableRows}
    /\ up_profile = <<>>
    /\ up_pc = "start"
    /\ NormIdle
    /\ CmIdle
    /\ KmIdle
    /\ DbIdle
    /\ FtIdle
    /\ EnIdle
    /\ MnIdle

CreateUserProfiles ==
    /\ up_pc = "start"
    /\ up_profile' = create_user_profiles(up_df)
    /\ up_pc' = "returned"
    /\ UNCHANGED <<up_df, nl_vars, cm_vars, km_vars, db_vars, ft_vars,
                   en_vars, mn_vars>>

ProfilesNext == CreateUserProfiles

SpecProfiles == ProfilesInit /\ [][ProfilesNext]_vars

\* the profile rows of one identifier
RowsOf(id) == {k \in DOMAIN up_profile : up_profile[k].user_id = id}

\* the identifiers of the raw table, a missing one read as "Unknown"
RawIds ==
    {IF up_df[i].user_id = NaN THEN Unknown ELSE up_df[i].user_id :
       i \in DOMAIN up_df}

\* the text of an identifier cell before its first comma
BeforeComma(cell) ==
    LET commas == {i \in DOMAIN cell : cell[i] = ","}
    IN  IF commas = {} THEN cell ELSE SubSeq(cell, 1, SetMin(commas) - 1)

CleanedIds == {BeforeComma(id) : id \in RawIds}

\* C12 as stated: every identifier of the raw table is the identifier of
\* exactly one profile row and every profile row's identifier is in the raw
\* table, rows without identifier sharing the one "Unknown" row
C12_RawIdsBijection ==
    up_pc = "returned" =>
        /\ \A id \in RawIds : Cardinality(RowsOf(id)) = 1
        /\ \A k \in DOMAIN up_profile : up_profile[k].user_id \in RawIds

\* C12: every cleaned identifier of the raw table (missing read as
\* "Unknown", otherwise the text before the first comma) is the identifier
\* of exactly one profile row, and every profile row's identifier is one
C12_CleanedIdsBijection ==
    up_pc = "returned" =>
        /\ \A id \in CleanedIds : Cardinality(RowsOf(id)) = 1
        /\ \A k \in DOMAIN up_profile : up_profile[k].user_id \in CleanedIds

\* identifiers "A" and "A,B" in the raw table, one row "A" in the profile
C12_Witness ==
    /\ up_pc = "returned"
    /\ {<<"A">>, <<"A", ",", "B">>} \subseteq RawIds
    /\ Cardinality(RowsOf(<<"A">>)) = 1
    /\ RowsOf(<<"A", ",", "B">>) = {}

\* the top-level categories of one consumer's transactions, in table order
CategoriesOf(id) ==
    LET rows == SelectSeq(up_df, LAMBDA r :
                    BeforeComma(IF r.user_id = NaN THEN Unknown
                                ELSE r.user_id) = id)
    IN  [i \in DOMAIN rows |-> extract_main_category(rows[i].category)]

MostFrequent(x) ==
    {c \in Range(x) : \A d \in Range(x) : count(x, c) >= count(x, d)}

FirstIndex(x, c) == SetMin({i \in DOMAIN x : x[i] = c})

\* C16 as stated: favorite_category is a most frequent category of the
\* consumer, and of several the one met first in the transactions
C16_FavoriteFirstEncountered ==
    up_pc = "returned" =>
        \A k \in DOMAIN up_profile :
            LET x == CategoriesOf(up_profile[k].user_id)
                fav == up_profile[k].favorite_category
            IN  /\ fav \in MostFrequent(x)
                /\ \A d \in MostFrequent(x) :
                       FirstIndex(x, fav) <= FirstIndex(x, d)

\* C16: favorite_category is a most frequent category of the consumer,
\* and of several the one that sorts first
C16_FavoriteSortsFirst ==
    up_pc = "returned" =>
        \A k \in DOMAIN up_profile :
            LET x == CategoriesOf(up_profile[k].user_id)
                fav == up_profile[k].favorite_category
            IN  /\ fav \in MostFrequent(x)
                /\ \A d \in MostFrequent(x) \ {fav} : str_less(fav, d)

\* a consumer whose first transaction is "Home" and whose categories tie:
\* the favorite is "Computers"
C16_Witness ==
    /\ up_pc = "returned"
    /\ \E k \in DOMAIN up_profile :
           LET x == CategoriesOf(up_profile[k].user_id)
           IN  /\ Cardinality(MostFrequent(x)) > 1
               /\ x[1] = <<"Home">>
               /\ up_profile[k].favorite_category = <<"Computers">>

\* -------------------------------------------------------- prepare_features
\* Feature values are real numbers in the program; here they are integers
\* in units of 1e-4, so that the variance threshold 1e-8 is one squared unit.
Unit == 10000

VarianceThreshold == 1

avg_price == <<"avg_price">>

avg_discount == <<"avg_discount">>

required_features == <<avg_price, avg_discount>>

\* the cells the profile columns are drawn from
PriceCells == {0, 2, 3}

DiscountCells == {0, 2}

FavoriteCells == {<<"Computers">>, <<"Home">>}

\* the profile tables: which of the three columns exist, and the rows
ProfileTables ==
    {[columns |-> c, rows |-> r] :
       c \in SUBSET {"avg_price", "avg_discount", "favorite_category"},
       r \in UNION {[1..n -> [avg_price : PriceCells,
                              avg_discount : DiscountCells,
                              favorite_category : FavoriteCells]] :
                    n \in 1..MaxProfiles}}

ValueError(message) == [raised |-> TRUE, error |-> "ValueError",
                        message |-> message, feature_names |-> <<>>,
                        kept |-> <<>>, shape |-> <<0, 0>>]

\* pd.get_dummies(df_work['favorite_category'], prefix='cat').columns
dummy_columns(df) ==
    LET cats == sorted_strs({df.rows[i].favorite_category :
                               i \in DOMAIN df.rows})
    IN  [k \in DOMAIN cats |-> <<"cat_">> \o cats[k]]

\* feature_names before the variance filter
candidate_names(df) ==
    IF "favorite_category" \in df.columns
    THEN required_features \o dummy_columns(df)
    ELSE required_features

\* one column of X = df_work.fillna(0).values
column(df, name) ==
    [i \in DOMAIN df.rows |->
       IF name = avg_price THEN df.rows[i].avg_price
       ELSE IF name = avg_discount THEN df.rows[i].avg_discount
       ELSE IF df.rows[i].favorite_category = Tail(name) THEN Unit ELSE 0]

RECURSIVE np_sum(_)
np_sum(x) == IF x = <<>> THEN 0 ELSE Head(x) + np_sum(Tail(x))

\* plausible slip: a column at the threshold is kept
valid_feature_at_threshold(x) ==
    LET n == Len(x)
        total == np_sum(x)
    IN  np_sum([i \in DOMAIN x |-> (n * x[i] - total) * (n * x[i] - total)])
            >= VarianceThreshold * n * n * n

\* np.var(x) > 1e-8, np.var being mean((x - mean(x))**2); both sides of
\* the comparison are multiplied by n**3
valid_feature(x) ==
    LET n == Len(x)
        total == np_sum(x)
    IN  np_sum([i \in DOMAIN x |-> (n * x[i] - total) * (n * x[i] - total)])
            > VarianceThreshold * n * n * n

prepare_features(df) ==
    IF "avg_price" \notin df.columns THEN ValueError("avg_price")
    ELSE IF "avg_discount" \notin df.columns THEN ValueError("avg_discount")
    ELSE LET feature_names == candidate_names(df)
             valid_features == [j \in DOMAIN feature_names |->
                                  valid_feature(column(df, feature_names[j]))]
             kept == SelectSeq([j \in DOMAIN feature_names |-> j],
                               LAMBDA j : valid_features[j])
         IN  IF kept = <<>> THEN ValueError("zero variance")
             ELSE [raised |-> FALSE, error |-> "", message |-> "",
                   feature_names |-> [k \in DOMAIN kept |->
                                        feature_names[kept[k]]],
                   kept |-> kept,
                   shape |-> <<Len(df.rows), Len(kept)>>]

FeaturesInit ==
    /\ ft_df \in ProfileTables
    /\ ft_result = <<>>
    /\ ft_pc = "start"
    /\ NormIdle
    /\ CmIdle
    /\ KmIdle
    /\ DbIdle
    /\ UpIdle
    /\ EnIdle
    /\ MnIdle

PrepareFeatures ==
    /\ ft_pc = "start"
    /\ ft_result' = prepare_features(ft_df)
    /\ ft_pc' = IF prepare_features(ft_df).raised THEN "raised" ELSE "returned"
    /\ UNCHANGED <<ft_df, nl_vars, cm_vars, km_vars, db_vars, up_vars,
                   en_vars, mn_vars>>

FeaturesNext == PrepareFeatures

SpecFeatures == FeaturesInit /\ [][FeaturesNext]_vars

\* the candidate columns of the input table, by name, and their variances
\* (in squared units, times n*n)
Candidates ==
    <<avg_price, avg_discount>>
        \o (IF "favorite_category" \in ft_df.columns
            THEN dummy_columns(ft_df) ELSE <<>>)

ScaledVariance(name) ==
    LET x == column(ft_df, name)
        n == Len(x)
    IN  n * np_sum([i \in DOMAIN x |-> x[i] * x[i]]) - np_sum(x) * np_sum(x)

Varies(name) == ScaledVariance(name) > Len(ft_df.rows) * Len(ft_df.rows)

RequiredPresent == {"avg_price", "avg_discount"} \subseteq ft_df.columns

\* C13: prepare_features raises a ValueError when avg_price or avg_discount
\* is absent and when no candidate column has variance above 1e-8;
\* otherwise it keeps exactly the columns with variance above 1e-8 in
\* their original order, names them in that order, and returns one matrix
\* row per profile row
C13_VarianceFilter ==
    ft_pc # "start" =>
        IF ~RequiredPresent \/ \A j \in DOMAIN Candidates : ~Varies(Candidates[j])
        THEN ft_pc = "raised" /\ ft_result.error = "ValueError"
        ELSE /\ ft_pc = "returned"
             /\ Range(ft_result.kept) =
                    {j \in DOMAIN Candidates : Varies(Candidates[j])}
             /\ \A a, b \in DOMAIN ft_result.kept :
                    a < b => ft_result.kept[a] < ft_result.kept[b]
             /\ Len(ft_result.feature_names) = Len(ft_result.kept)
             /\ \A a \in DOMAIN ft_result.kept :
                    ft_result.feature_names[a] = Candidates[ft_result.kept[a]]
             /\ ft_result.shape = <<Len(ft_df.rows), Len(ft_result.kept)>>

\* a table whose avg_discount column differs between rows with a variance
\* of exactly the threshold: the column is dropped, others are kept
C13_Witness ==
    /\ ft_pc = "returned"
    /\ ScaledVariance(avg_discount) = Len(ft_df.rows) * Len(ft_df.rows)
    /\ 2 \notin Range(ft_result.kept)
    /\ Len(ft_result.kept) >= 2
    /\ ft_result.feature_names[1] = avg_price

\* ------------------------------------------------------------ ClusterEngine
\* Python's None, and an argument left at its default None
None == <<>>

\* ClusterEngine.__init__
new_engine == [model |-> None, labels |-> None, best_params |-> <<>>]

FitRaises == [raised |-> TRUE, value |-> <<>>]

\* what KMeans(...).fit_predict(X) and DBSCAN(...).fit_predict(X) do in
\* apply_kmeans and apply_dbscan on n rows
KMeansFitOutcomes(n) ==
    {FitRaises} \cup {Returns(labels_of(n, 0, m)) : m \in {2, 3}}

DbscanFitOutcomes(n) ==
    {FitRaises} \cup {Returns(labels_of(n, 1, 2)), Returns(labels_of(n, n, 0))}

\* find_optimal_k(X) as one call; env[i] is what iteration i meets
find_optimal_k(n, env) ==
    choose_k(n, [i \in DOMAIN env |-> iteration_score(env[i])])

KSearchEnvs(n) == [1..Len(k_values(n)) -> IterationOutcomes]

\* best_score, best_eps, best_min_samples, best_n_clusters before the loops
initial_best == [score |-> -100, eps |-> 5, min_samples |-> 5,
                 n_clusters |-> 0]

\* find_optimal_dbscan_params(X) as one call; env[i] is what combination i
\* meets: its DBSCAN run raises, or returns labels that silhouette_score
\* then scores or fails on.  One pass of the loop body:
run_combination(env, idx, st) ==
    IF st.raised THEN st
    ELSE IF env[idx].fit_raised THEN [raised |-> TRUE, best |-> st.best]
    ELSE [raised |-> FALSE,
          best |-> try_combination(st.best, grid[idx], env[idx].labels,
                                   env[idx].silhouette).best]

\* the passes lo..hi in grid order: the first half, and from the state it
\* leaves the second half
RECURSIVE run_combinations(_, _, _, _)
run_combinations(env, lo, hi, st) ==
    IF lo > hi THEN st
    ELSE IF lo = hi THEN run_combination(env, lo, st)
    ELSE CHOOSE after \in
             {run_combinations(env, (lo + hi) \div 2 + 1, hi, half) :
                half \in {run_combinations(env, lo, (lo + hi) \div 2, st)}} :
             TRUE

find_optimal_dbscan_params(env) ==
    LET st == run_combinations(env, 1, Len(grid),
                               [raised |-> FALSE, best |-> initial_best])
    IN  IF st.raised THEN FitRaises ELSE Returns(final_params(st.best))

\* the combinations on which DBSCAN may find clusters; on all others every
\* point is an outlier
SearchPositions == {2, 40}

CombinationOutcomes(n) ==
    {[fit_raised |-> TRUE, labels |-> <<>>, silhouette |-> Raises],
     [fit_raised |-> FALSE, labels |-> labels_of(n, n, 0),
      silhouette |-> Raises]}
    \cup {[fit_raised |-> FALSE, labels |-> labels_of(n, 0, 2),
           silhouette |-> s] : s \in SearchSilhouetteOutcomes}

DbscanSearchEnvs(n) ==
    {[i \in 1..Len(grid) |->
        IF i \in SearchPositions THEN f[i]
        ELSE [fit_raised |-> FALSE, labels |-> labels_of(n, n, 0),
              silhouette |-> Raises]] :
       f \in [SearchPositions -> CombinationOutcomes(n)]}

\* what find_optimal_dbscan_params can answer on n rows
DbscanSearchResults ==
    [n \in 4..((IF MaxEngineRows > MaxMainRows THEN MaxEngineRows
                ELSE MaxMainRows) + 1) |->
        {find_optimal_dbscan_params(env) : env \in DbscanSearchEnvs(n)}]

\* apply_kmeans(X, n_clusters)
apply_kmeans(engine, n, n_clusters, env, fit) ==
    LET k == IF n_clusters = None THEN find_optimal_k(n, env)
             ELSE n_clusters[1]
        model == [class |-> "KMeans", n_clusters |-> k]
        best_params == [n_clusters |-> k, algorithm |-> "kmeans"]
    IN  IF fit.raised
        THEN [engine |-> [engine EXCEPT !.model = model], raised |-> TRUE,
              labels |-> None, best_params |-> <<>>, searched |-> None]
        ELSE [engine |-> [model |-> model, labels |-> fit.value,
                          best_params |-> best_params],
              raised |-> FALSE, labels |-> fit.value,
              best_params |-> best_params, searched |-> None]

\* plausible slip: best_params is stored before the fit
dbscan_call_params_first(engine, params, searched, fit) ==
    LET model == [class |-> "DBSCAN", eps |-> params[1],
                  min_samples |-> params[2]]
        best_params == [eps |-> params[1], min_samples |-> params[2],
                        algorithm |-> "dbscan"]
    IN  IF fit.raised
        THEN [engine |-> [model |-> model, labels |-> engine.labels,
                          best_params |-> best_params],
              raised |-> TRUE,
              labels |-> None, best_params |-> <<>>, searched |-> searched]
        ELSE [engine |-> [model |-> model, labels |-> fit.value,
                          best_params |-> best_params],
              raised |-> FALSE, labels |-> fit.value,
              best_params |-> best_params, searched |-> searched]

dbscan_call(engine, params, searched, fit) ==
    LET model == [class |-> "DBSCAN", eps |-> params[1],
                  min_samples |-> params[2]]
        best_params == [eps |-> params[1], min_samples |-> params[2],
                        algorithm |-> "dbscan"]
    IN  IF fit.raised
        THEN [engine |-> [engine EXCEPT !.model = model], raised |-> TRUE,
              labels |-> None, best_params |-> <<>>, searched |-> searched]
        ELSE [engine |-> [model |-> model, labels |-> fit.value,
                          best_params |-> best_params],
              raised |-> FALSE, labels |-> fit.value,
              best_params |-> best_params, searched |-> searched]

\* apply_dbscan(X, eps, min_samples); search is what
\* find_optimal_dbscan_params does if it is called
apply_dbscan(engine, eps, min_samples, search, fit) ==
    IF eps = None \/ min_samples = None
    THEN IF search.raised
         THEN [engine |-> engine, raised |-> TRUE, labels |-> None,
               best_params |-> <<>>, searched |-> None]
         ELSE dbscan_call(engine, search.value, search.value, fit)
    ELSE dbscan_call(engine, <<eps[1], min_samples[1]>>, None, fit)

no_call == [method |-> "__init__", outcome |-> "returned"]

no_return == [method |-> "none", eps |-> None, min_samples |-> None,
              searched |-> None, labels |-> None, best_params |-> <<>>]

outcome_of(raised) == IF raised THEN "raised" ELSE "returned"

EngineInit ==
    /\ en_n \in 4..MaxEngineRows
    /\ en_engine = new_engine
    /\ en_call = no_call
    /\ en_returned = no_return
    /\ NormIdle
    /\ CmIdle
    /\ KmIdle
    /\ DbIdle
    /\ UpIdle
    /\ FtIdle
    /\ MnIdle

CallApplyKMeans ==
    /\ \E n_clusters \in {None, <<3>>} :
       \E env \in IF n_clusters = None THEN KSearchEnvs(en_n) ELSE {<<>>} :
       \E fit \in KMeansFitOutcomes(en_n) :
       \E r \in {apply_kmeans(en_engine, en_n, n_clusters, env, fit)} :
           /\ en_engine' = r.engine
           /\ en_call' = [method |-> "apply_kmeans",
                          outcome |-> outcome_of(r.raised)]
           /\ en_returned' =
                 IF r.raised THEN en_returned
                 ELSE [method |-> "apply_kmeans", eps |-> None,
                       min_samples |-> None, searched |-> None,
                       labels |-> r.labels, best_params |-> r.best_params]
    /\ UNCHANGED <<en_n, nl_vars, cm_vars, km_vars, db_vars, up_vars,
                   ft_vars, mn_vars>>

CallApplyDbscan ==
    /\ \E eps \in {None, <<6>>} :
       \E min_samples \in {None, <<4>>} :
       \E search \in IF eps = None \/ min_samples = None
                     THEN DbscanSearchResults[en_n] ELSE {FitRaises} :
       \E fit \in DbscanFitOutcomes(en_n) :
       \E r \in {apply_dbscan(en_engine, eps, min_samples, search, fit)} :
           /\ en_engine' = r.engine
           /\ en_call' = [method |-> "apply_dbscan",
                          outcome |-> outcome_of(r.raised)]
           /\ en_returned' =
                 IF r.raised THEN en_returned
                 ELSE [method |-> "apply_dbscan", eps |-> eps,
                       min_samples |-> min_samples, searched |-> r.searched,
                       labels |-> r.labels, best_params |-> r.best_params]
    /\ UNCHANGED <<en_n, nl_vars, cm_vars, km_vars, db_vars, up_vars,
                   ft_vars, mn_vars>>

CallFindOptimalK ==
    /\ \E env \in KSearchEnvs(en_n) :
           /\ find_optimal_k(en_n, env) \in Nat
           /\ en_call' = [method |-> "find_optimal_k",
                          outcome |-> "returned"]
    /\ UNCHANGED <<en_n, en_engine, en_returned, nl_vars, cm_vars, km_vars,
                   db_vars, up_vars, ft_vars, mn_vars>>

CallFindOptimalDbscanParams ==
    /\ \E search \in DbscanSearchResults[en_n] :
           en_call' = [method |-> "find_optimal_dbscan_params",
                       outcome |-> outcome_of(search.raised)]
    /\ UNCHANGED <<en_n, en_engine, en_returned, nl_vars, cm_vars, km_vars,
                   db_vars, up_vars, ft_vars, mn_vars>>

CallCalculateMetrics ==
    /\ \E labels \in {labels_of(en_n, 1, 2), labels_of(en_n, en_n, 0)} :
       \E env \in [silhouette : SilhouetteOutcomes,
                   davies_bouldin : DaviesBouldinOutcomes,
                   calinski_harabasz : CalinskiHarabaszOutcomes] :
           en_call' = [method |-> "calculate_metrics",
                       outcome |-> outcome_of(
                           calculate_metrics(labels, env).raised)]
    /\ UNCHANGED <<en_n, en_engine, en_returned, nl_vars, cm_vars, km_vars,
                   db_vars, up_vars, ft_vars, mn_vars>>

EngineNext ==
    \/ CallApplyKMeans
    \/ CallApplyDbscan
    \/ CallFindOptimalK
    \/ CallFindOptimalDbscanParams
    \/ CallCalculateMetrics

SpecEngine == EngineInit /\ [][EngineNext]_vars

\* the stored labels and best_params are those the latest returning
\* apply_* call returned, with that call's algorithm and parameters
StoredIsLastReturned ==
    /\ en_engine.labels = en_returned.labels
    /\ en_engine.best_params = en_returned.best_params
    /\ en_returned.method = "apply_kmeans"
         => en_engine.best_params.algorithm = "kmeans"
    /\ en_returned.method = "apply_dbscan"
         => /\ en_engine.best_params.algorithm = "dbscan"
            /\ IF en_returned.eps # None /\ en_returned.min_samples # None
               THEN /\ en_engine.best_params.eps = en_returned.eps[1]
                    /\ en_engine.best_params.min_samples
                           = en_returned.min_samples[1]
                    /\ en_returned.searched = None
               ELSE /\ en_returned.searched # None
                    /\ en_engine.best_params.eps = en_returned.searched[1]
                    /\ en_engine.best_params.min_samples
                           = en_returned.searched[2]

ReadOnlyMethods ==
    {"find_optimal_k", "find_optimal_dbscan_params", "calculate_metrics"}

ndarray(values) == [kind |-> "ndarray", values |-> values]

engine_object(model, labels, best_params) ==
    [kind |-> "ClusterEngine", model |-> model, labels |-> labels,
     best_params |-> best_params]

\* df_profiles as create_user_profiles returned it
profile_table ==
    [kind |-> "DataFrame",
     columns |-> <<"user_id", "avg_price", "avg_discount",
                   "favorite_category">>,
     cluster |-> <<>>]

no_locals ==
    [df_profiles |-> 1,
     engine_kmeans |-> 0, labels_kmeans_raw |-> 0, labels_kmeans |-> 0,
     engine_dbscan |-> 0, labels_dbscan_raw |-> 0, labels_dbscan |-> 0,
     df_kmeans |-> 0, df_dbscan |-> 0,
     metrics_kmeans |-> <<>>, metrics_dbscan |-> <<>>]

\* what the three metrics do in a run of main
MainMetricEnvs ==
    {[silhouette |-> Returns(70), davies_bouldin |-> Returns(120),
      calinski_harabasz |-> Returns(250)],
     [silhouette |-> Raises, davies_bouldin |-> Raises,
      calinski_harabasz |-> Raises]}

\* the engine at an address as the ClusterEngine methods see it
engine_at(heap, addr) ==
    [model |-> heap[addr].model,
     labels |-> IF heap[addr].labels = 0 THEN None
                ELSE heap[heap[addr].labels].values,
     best_params |-> heap[addr].best_params]

\* the heap after a call of apply_kmeans or apply_dbscan on the engine at
\* addr with outcome r: a returning call stores a new label array
heap_after_apply(heap, addr, r) ==
    IF r.raised
    THEN [heap EXCEPT ![addr].model = r.engine.model]
    ELSE Append([heap EXCEPT ![addr] =
                    engine_object(r.engine.model, Len(heap) + 1,
                                  r.engine.best_params)],
                ndarray(r.labels))

\* plausible slip: the profile table itself is labeled, not a copy
df_copy_alias(heap, addr) == [heap |-> heap, addr |-> addr]

\* df.copy()
df_copy(heap, addr) ==
    [heap |-> Append(heap, heap[addr]), addr |-> Len(heap) + 1]

\* df['cluster'] = labels
set_cluster_column(df, labels) ==
    [df EXCEPT !.columns = IF "cluster" \in Range(df.columns) THEN df.columns
                           ELSE Append(df.columns, "cluster"),
               !.cluster = labels]

MainInit ==
    /\ mn_n \in 4..MaxMainRows
    /\ mn_heap = <<profile_table>>
    /\ mn_locals = no_locals
    /\ mn_log = <<>>
    /\ mn_pc = "engine_kmeans"
    /\ NormIdle
    /\ CmIdle
    /\ KmIdle
    /\ DbIdle
    /\ UpIdle
    /\ FtIdle
    /\ EnIdle

main_rest == <<nl_vars, cm_vars, km_vars, db_vars, up_vars, ft_vars, en_vars>>

\* engine_x = ClusterEngine()
NewEngine(at, next, name) ==
    /\ mn_pc = at
    /\ mn_heap' = Append(mn_heap, engine_object(new_engine.model, 0,
                                                new_engine.best_params))
    /\ mn_locals' = [mn_locals EXCEPT ![name] = Len(mn_heap) + 1]
    /\ mn_pc' = next
    /\ UNCHANGED <<mn_n, mn_log, main_rest>>

\* labels_x_raw, params_x = engine_x.apply_x(X_scaled), with outcome r
Applied(at, next, call, engine, name, r) ==
    /\ mn_pc = at
    /\ mn_heap' = heap_after_apply(mn_heap, mn_locals[engine], r)
    /\ mn_locals' = IF r.raised THEN mn_locals
                    ELSE [mn_locals EXCEPT ![name] = Len(mn_heap) + 1]
    /\ mn_log' = IF r.raised THEN mn_log
                 ELSE Append(mn_log, [call |-> call,
                                      engine |-> mn_locals[engine],
                                      labels |-> 0,
                                      result |-> Len(mn_heap) + 1,
                                      returned |-> r.labels])
    /\ mn_pc' = IF r.raised THEN "raised" ELSE next
    /\ UNCHANGED <<mn_n, main_rest>>

\* metrics_x = engine_x.calculate_metrics(X_scaled, labels_x_raw)
Evaluate(at, next, engine, raw, name) ==
    /\ mn_pc = at
    /\ \E env \in MainMetricEnvs :
       \E r \in {calculate_metrics(mn_heap[mn_locals[raw]].values, env)} :
           /\ mn_locals' = IF r.raised THEN mn_locals
                           ELSE [mn_locals EXCEPT ![name] = r.metrics]
           /\ mn_pc' = IF r.raised THEN "raised" ELSE next
    /\ mn_log' = Append(mn_log, [call |-> "calculate_metrics",
                                 engine |-> mn_locals[engine],
                                 labels |-> mn_locals[raw],
                                 result |-> 0, returned |-> <<>>])
    /\ UNCHANGED <<mn_n, mn_heap, main_rest>>

\* labels_x = normalize_cluster_labels(labels_x_raw)
NormalizeLabels(at, next, raw, name) ==
    /\ mn_pc = at
    /\ mn_heap' = Append(mn_heap,
                         ndarray(normalize_cluster_labels(
                                     mn_heap[mn_locals[raw]].values)))
    /\ mn_locals' = [mn_locals EXCEPT ![name] = Len(mn_heap) + 1]
    /\ mn_log' = Append(mn_log, [call |-> "normalize_cluster_labels",
                                 engine |-> 0,
                                 labels |-> mn_locals[raw],
                                 result |-> Len(mn_heap) + 1,
                                 returned |-> <<>>])
    /\ mn_pc' = next
    /\ UNCHANGED <<mn_n, main_rest>>

\* df_x = df_profiles.copy()
CopyProfiles(at, next, name) ==
    /\ mn_pc = at
    /\ \E c \in {df_copy(mn_heap, mn_locals.df_profiles)} :
           /\ mn_heap' = c.heap
           /\ mn_locals' = [mn_locals EXCEPT ![name] = c.addr]
    /\ mn_pc' = next
    /\ UNCHANGED <<mn_n, mn_log, main_rest>>

\* df_x['cluster'] = labels_x
LabelTable(at, next, table, labels) ==
    /\ mn_pc = at
    /\ mn_heap' = [mn_heap EXCEPT ![mn_locals[table]] =
                      set_cluster_column(@, mn_heap[mn_locals[labels]].values)]
    /\ mn_pc' = next
    /\ UNCHANGED <<mn_n, mn_locals, mn_log, main_rest>>

NewKMeansEngine == NewEngine("engine_kmeans", "apply_kmeans", "engine_kmeans")

RunApplyKMeans ==
    \E env \in KSearchEnvs(mn_n) :
    \E fit \in KMeansFitOutcomes(mn_n) :
        Applied("apply_kmeans", "metrics_kmeans", "apply_kmeans",
                "engine_kmeans", "labels_kmeans_raw",
                apply_kmeans(engine_at(mn_heap, mn_locals.engine_kmeans),
                             mn_n, None, env, fit))

EvaluateKMeans ==
    Evaluate("metrics_kmeans", "normalize_kmeans", "engine_kmeans",
             "labels_kmeans_raw", "metrics_kmeans")

NormalizeKMeans ==
    NormalizeLabels("normalize_kmeans", "engine_dbscan", "labels_kmeans_raw",
                    "labels_kmeans")

NewDbscanEngine == NewEngine("engine_dbscan", "apply_dbscan", "engine_dbscan")

RunApplyDbscan ==
    \E search \in DbscanSearchResults[mn_n] :
    \E fit \in DbscanFitOutcomes(mn_n) :
        Applied("apply_dbscan", "metrics_dbscan", "apply_dbscan",
                "engine_dbscan", "labels_dbscan_raw",
                apply_dbscan(engine_at(mn_heap, mn_locals.engine_dbscan),
                             None, None, search, fit))

EvaluateDbscan ==
    Evaluate("metrics_dbscan", "normalize_dbscan", "engine_dbscan",
             "labels_dbscan_raw", "metrics_dbscan")

NormalizeDbscan ==
    NormalizeLabels("normalize_dbscan", "copy_kmeans", "labels_dbscan_raw",
                    "labels_dbscan")

CopyForKMeans == CopyProfiles("copy_kmeans", "label_kmeans", "df_kmeans")

LabelKMeans ==
    LabelTable("label_kmeans", "copy_dbscan", "df_kmeans", "labels_kmeans")

CopyForDbscan == CopyProfiles("copy_dbscan", "label_dbscan", "df_dbscan")

LabelDbscan ==
    LabelTable("label_dbscan", "dashboard", "df_dbscan", "labels_dbscan")

MainNext ==
    \/ NewKMeansEngine
    \/ RunApplyKMeans
    \/ EvaluateKMeans
    \/ NormalizeKMeans
    \/ NewDbscanEngine
    \/ RunApplyDbscan
    \/ EvaluateDbscan
    \/ NormalizeDbscan
    \/ CopyForKMeans
    \/ LabelKMeans
    \/ CopyForDbscan
    \/ LabelDbscan

SpecMain == MainInit /\ [][MainNext]_vars

ApplyCalls == {"apply_kmeans", "apply_dbscan"}

\* every calculate_metrics call comes right after the apply_* call of the
\* same engine and is given the very array that call returned, unchanged
EvaluatesRawLabels ==
    \A i \in DOMAIN mn_log :
        mn_log[i].call = "calculate_metrics" =>
            /\ i > 1
            /\ mn_log[i - 1].call \in ApplyCalls
            /\ mn_log[i - 1].engine = mn_log[i].engine
            /\ mn_log[i].labels = mn_log[i - 1].result
            /\ mn_heap[mn_log[i].labels].values = mn_log[i - 1].returned

\* every normalization comes right after the evaluation of the same raw
\* array, yields another array and leaves the raw array as it was returned
NormalizesAfterEvaluation ==
    \A i \in DOMAIN mn_log :
        mn_log[i].call = "normalize_cluster_labels" =>
            /\ i > 2
            /\ mn_log[i - 1].call = "calculate_metrics"
            /\ mn_log[i].labels = mn_log[i - 1].labels
            /\ mn_log[i].result # mn_log[i].labels
            /\ \A j \in DOMAIN mn_log :
                   mn_log[j].call = "calculate_metrics"
                       => mn_log[j].labels # mn_log[i].result
            /\ mn_heap[mn_log[i].labels].values = mn_log[i - 2].returned

SeparateEngines ==
    /\ \A i, j \in DOMAIN mn_log :
           (mn_log[i].call = "apply_kmeans" /\ mn_log[j].call = "apply_dbscan")
               => mn_log[i].engine # mn_log[j].engine
    /\ mn_locals.engine_dbscan # 0
           => mn_locals.engine_dbscan # mn_locals.engine_kmeans

\* the profile table is never changed, and a labeled table is an object of
\* its own holding its own algorithm's normalized labels
SeparateTables ==
    /\ mn_heap[mn_locals.df_profiles] = profile_table
    /\ mn_locals.df_kmeans # 0
           => /\ mn_locals.df_kmeans # mn_locals.df_profiles
              /\ mn_pc \in {"copy_dbscan", "label_dbscan", "dashboard"}
                   => mn_heap[mn_locals.df_kmeans].cluster
                          = mn_heap[mn_locals.labels_kmeans].values
    /\ mn_locals.df_dbscan # 0
           => /\ mn_locals.df_dbscan \notin {mn_locals.df_profiles,
                                            mn_locals.df_kmeans}
              /\ mn_pc = "label_dbscan"
                   => mn_heap[mn_locals.df_dbscan] = profile_table
              /\ mn_pc = "dashboard"
                   => mn_heap[mn_locals.df_dbscan].cluster
                          = mn_heap[mn_locals.labels_dbscan].values

\* C17: in main each algorithm is searched, then evaluated, then
\* normalized; calculate_metrics is given the raw labels apply_* returned,
\* never the normalized ones; the two algorithms have separate engines;
\* each labeled table is a copy of its own, so labeling one changes neither
\* the other nor the profile table
C17_PipelineOrder ==
    /\ EvaluatesRawLabels
    /\ NormalizesAfterEvaluation
    /\ SeparateEngines
    /\ SeparateTables
    /\ mn_pc = "dashboard"
         => [i \in DOMAIN mn_log |-> mn_log[i].call]
              = <<"apply_kmeans", "calculate_metrics",
                  "normalize_cluster_labels", "apply_dbscan",
                  "calculate_metrics", "normalize_cluster_labels">>

\* main reached the dashboard: DBSCAN marked an outlier with -1, the
\* evaluation saw it, the normalized labels do not hold it, and the two
\* labeled tables carry different cluster columns
C17_Witness ==
    /\ mn_pc = "dashboard"
    /\ -1 \in Range(mn_heap[mn_log[5].labels].values)
    /\ mn_locals.metrics_dbscan["n_noise"] = 1
    /\ -1 \notin Range(mn_heap[mn_locals.labels_dbscan].values)
    /\ mn_heap[mn_locals.df_kmeans].cluster
           # mn_heap[mn_locals.df_dbscan].cluster

====
